---- MODULE Spec2Model ----
(***************************************************************************)
(* Model of main/main.cpp of sip_call: the wifi/ip event_handler (run by   *)
(* the system event loop task) and sip_task (the SIP lifecycle loop), with *)
(* the event router lambda that sip_task installs on the SipClient.        *)
(*                                                                         *)
(* The two tasks run concurrently; every access to shared state            *)
(* (wifi_event_group, client) is a step of its own.  SipClient is declared *)
(* in sip_client/sip_client.h, which is not part of the given sources; its *)
(* init()/deinit()/is_initialized()/setters are modelled from the          *)
(* specification's interface description as atomic calls.                  *)
(***************************************************************************)
EXTENDS Integers, Sequences, FiniteSets, TLC

(* ------------------------------ bounds -------------------------------- *)

\* init() attempts made by sip_task in one run of the model
MaxInit == 3
\* session events delivered to the event router in one run of the model
MaxEvents == 2

(* --------------------------- program constants ------------------------ *)

\* const int CONNECTED_BIT = BIT0;
CONNECTED_BIT == 1

\* CONFIG_ACTUATOR_PHONE_BUTTON: a string, of which the router reads [0]
ACTUATOR_PHONE_BUTTON == <<"#">>

\* #ifdef CONFIG_SIP_SERVER_IS_DHCP_SERVER (the guarded code passes an
\* esp_ip4_addr_t* where a system_event_sta_got_ip_t* is declared, so only
\* the build without the option exists)
CONFIG_SIP_SERVER_IS_DHCP_SERVER == FALSE

\* CONFIG_LOCAL_IP / CONFIG_SIP_SERVER_IP given to the SipClient constructor
CONFIG_LOCAL_IP == <<0, 0, 0, 0>>
CONFIG_SIP_SERVER_IP == <<192, 168, 179, 1>>

(* ------------------------------ inputs -------------------------------- *)

\* esp_ip4_addr_t values (u32, first octet in the low byte) the DHCP client
\* may hand out, each with the gateway of its network
IpInfos ==
    { [ip |-> 192 + 256 * 168 + 65536 * 1 + 16777216 * 7,
       gw |-> 192 + 256 * 168 + 65536 * 1 + 16777216 * 1],
      [ip |-> 10 + 256 * 0 + 65536 * 0 + 16777216 * 99,
       gw |-> 10 + 256 * 0 + 65536 * 0 + 16777216 * 1] }

CancelReasons == {"CALL_DECLINED", "TARGET_BUSY"}
ButtonSignals == {"#", "1"}
ButtonDurations == {500, 1000}

NoReason == "NONE"
NoSignal == " "

\* SipClientEvent values the session can raise
SipClientEvents ==
    { [event |-> "CALL_START", cancel_reason |-> NoReason,
       button_signal |-> NoSignal, button_duration |-> 0],
      [event |-> "CALL_END", cancel_reason |-> NoReason,
       button_signal |-> NoSignal, button_duration |-> 0] }
    \cup { [event |-> "CALL_CANCELLED", cancel_reason |-> r,
            button_signal |-> NoSignal, button_duration |-> 0]
           : r \in CancelReasons }
    \cup { [event |-> "BUTTON_PRESS", cancel_reason |-> NoReason,
            button_signal |-> s, button_duration |-> d]
           : s \in ButtonSignals, d \in ButtonDurations }

(* ------------------------------- state -------------------------------- *)

VARIABLES
    wifi_event_group,      \* set of bits set in the FreeRTOS event group
    client,                \* the SipClientT instance of app_main
    io_stopped,            \* io_context: stopped after run() ran out of work
    button_input_handler,  \* [call_end_calls]: calls of call_end()
    actuator_handler,      \* [trigger_calls]: calls of trigger()
    sip_pc,                \* position of sip_task
    ev_pc,                 \* position of event_handler (event loop task)
    ev_data,               \* ip_info of the IP_EVENT_STA_GOT_IP being handled
    ev_arg,                \* arg of the event_handler invocation (client)
    handler_arg,           \* arg event_handler is registered with
    main_pc,               \* position of app_main (the startup task)
    link_pc,               \* the WiFi station: "off", "started" (STA_START
                           \* posted), "connecting" (esp_wifi_connect called)
    events,                \* history: SipClientEvents delivered, in order
    n_init,                \* history: calls of client.init()
    n_fail,                \* history: init() calls that returned false
    n_delay,               \* history: vTaskDelay(2000 ms) steps completed
    n_install,             \* history: calls of client.set_event_handler()
    h_live,                \* history: an init() succeeded, no deinit() since
    h_disc_in_delay,       \* history: disconnect arrived in the retry delay,
                           \*          CONNECTED_BIT not set again since
    h_drop,                \* history: disconnect that hit a READY session
                           \*          inside io_context.run()
    h_did,                 \* history: calls made by the handler invocation
                           \*          in progress (or the last one)
    h_disc_snap,           \* history: state left by the first of a row of
                           \*          disconnects
    h_ip_recorded,         \* history: a got-ip handler called set_my_ip()
    h_init_ip,             \* history: my_ip the init() of the READY session
                           \*          used, << >> after a deinit()
    h_null_call            \* history: event_handler called a method of the
                           \*          client through a null pointer

prog_vars == <<wifi_event_group, client, io_stopped, button_input_handler,
               actuator_handler, sip_pc, ev_pc, ev_data, ev_arg,
               handler_arg, main_pc, link_pc>>

hist_vars == <<events, n_init, n_fail, n_delay, n_install, h_live,
               h_disc_in_delay, h_drop, h_did, h_disc_snap, h_ip_recorded,
               h_init_ip, h_null_call>>

vars == <<prog_vars, hist_vars>>

NoIpInfo == [ip |-> 0, gw |-> 0]

(* ----------------------------- helpers -------------------------------- *)

\* snprintf(buffer, 16, IPSTR, IP2STR(ip)): the four octets, low byte first
ip_to_string(ip) ==
    << ip % 256, (ip \div 256) % 256, (ip \div 65536) % 256,
       (ip \div 16777216) % 256 >>

get_gw_ip_address(got_ip) == ip_to_string(got_ip.gw)

get_local_ip_address(got_ip) == ip_to_string(got_ip)

\* xEventGroupSetBits / xEventGroupClearBits / the wait condition of
\* xEventGroupWaitBits(group, bits, clearOnExit = false, waitForAll = true)
xEventGroupSetBits(group, bits) == group \cup bits
xEventGroupClearBits(group, bits) == group \ bits
xEventGroupBitsSet(group, bits) == bits \subseteq group

(* --------------- SipClient (sip_client/sip_client.h) ------------------ *)

\* SipClientT client { io_context, user, password, server_ip, port, my_ip }
SipClient_construct ==
    [initialized |-> FALSE,
     my_ip |-> CONFIG_LOCAL_IP,
     server_ip |-> CONFIG_SIP_SERVER_IP,
     event_handler |-> "none"]

\* bool init(): READY on success, still UNINITIALIZED on failure
SipClient_init(c, result) == [c EXCEPT !.initialized = result]

\* void deinit(): back to UNINITIALIZED, whatever the state was
SipClient_deinit(c) == [c EXCEPT !.initialized = FALSE]

SipClient_is_initialized(c) == c.initialized

SipClient_set_my_ip(c, ip) == [c EXCEPT !.my_ip = ip]

SipClient_set_server_ip(c, ip) == [c EXCEPT !.server_ip = ip]

SipClient_set_event_handler(c, handler) == [c EXCEPT !.event_handler = handler]

\* what a disconnect leaves behind: the session state and the event group
DiscState == <<client.initialized, client.my_ip, client.server_ip,
               wifi_event_group>>

NoSnap == [tag |-> "none", state |-> << >>]

(* ------------------------------- Init --------------------------------- *)

\* app_main has constructed client, the handlers and io_context, registered
\* event_handler with &client and created sip_task
Init ==
    /\ wifi_event_group = {}
    /\ client = SipClient_construct
    /\ io_stopped = FALSE
    /\ button_input_handler = [call_end_calls |-> 0]
    /\ actuator_handler = [trigger_calls |-> 0]
    /\ sip_pc = "wait"
    /\ ev_pc = "idle"
    /\ ev_data = NoIpInfo
    /\ ev_arg = "client"
    /\ handler_arg = "client"
    /\ main_pc = "button_run"
    /\ link_pc = "connecting"
    /\ events = << >>
    /\ n_init = 0
    /\ n_fail = 0
    /\ n_delay = 0
    /\ n_install = 0
    /\ h_live = FALSE
    /\ h_disc_in_delay = FALSE
    /\ h_drop = {}
    /\ h_did = {}
    /\ h_disc_snap = NoSnap
    /\ h_ip_recorded = FALSE
    /\ h_init_ip = << >>
    /\ h_null_call = FALSE

(* ------------------------- the event router --------------------------- *)

\* EventRouter with the break of case CALL_START missing: it falls through
\* into case CALL_CANCELLED
EventRouter_StartFallsThrough(event) ==
    CASE event.event \in {"CALL_START", "CALL_CANCELLED", "CALL_END"} ->
            [call_end |-> 1, trigger |-> 0]
      [] event.event = "BUTTON_PRESS" ->
            IF event.button_signal = ACTUATOR_PHONE_BUTTON[1]
            THEN [call_end |-> 0, trigger |-> 1]
            ELSE [call_end |-> 0, trigger |-> 0]
      [] OTHER ->
            [call_end |-> 0, trigger |-> 0]

\* EventRouter without the comparison with ACTUATOR_PHONE_BUTTON[0]
EventRouter_AnyButton(event) ==
    CASE event.event \in {"CALL_CANCELLED", "CALL_END"} ->
            [call_end |-> 1, trigger |-> 0]
      [] event.event = "BUTTON_PRESS" ->
            [call_end |-> 0, trigger |-> 1]
      [] OTHER ->
            [call_end |-> 0, trigger |-> 0]

\* the lambda given to client.set_event_handler(): the calls it makes on
\* button_input_handler (call_end) and actuator_handler (trigger)
EventRouter(event) ==
    CASE event.event = "CALL_START" ->
            [call_end |-> 0, trigger |-> 0]
      [] event.event = "CALL_CANCELLED" ->
            [call_end |-> 1, trigger |-> 0]
      [] event.event = "CALL_END" ->
            [call_end |-> 1, trigger |-> 0]
      [] event.event = "BUTTON_PRESS" ->
            IF event.button_signal = ACTUATOR_PHONE_BUTTON[1]
            THEN [call_end |-> 0, trigger |-> 1]
            ELSE [call_end |-> 0, trigger |-> 0]
      [] OTHER ->
            [call_end |-> 0, trigger |-> 0]

(* ------------------------------ sip_task ------------------------------ *)

ev_vars == <<ev_pc, ev_data, ev_arg, h_did, h_ip_recorded>>
\* app_main's position and registration, which neither task changes
boot_vars == <<main_pc, handler_arg, link_pc, h_null_call>>
out_vars == <<button_input_handler, actuator_handler, events>>

\* sip_task_WaitBits returning without CONNECTED_BIT being set
sip_task_WaitBits_NoWait ==
    /\ sip_pc = "wait"
    /\ sip_pc' = "check"
    /\ UNCHANGED <<boot_vars, h_init_ip, wifi_event_group, client, io_stopped, ev_vars, out_vars,
                   n_init, n_fail, n_delay, n_install, h_live,
                   h_disc_in_delay, h_drop, h_disc_snap>>

\* xEventGroupWaitBits(wifi_event_group, CONNECTED_BIT, false, true,
\* portMAX_DELAY): returns once CONNECTED_BIT is set, leaves it set
sip_task_WaitBits ==
    /\ sip_pc = "wait"
    /\ xEventGroupBitsSet(wifi_event_group, {CONNECTED_BIT})
    /\ sip_pc' = "check"
    /\ UNCHANGED <<boot_vars, h_init_ip, wifi_event_group, client, io_stopped, ev_vars, out_vars,
                   n_init, n_fail, n_delay, n_install, h_live,
                   h_disc_in_delay, h_drop, h_disc_snap>>

\* sip_task_IsInitialized without the test: init() on every iteration
sip_task_IsInitialized_NoCheck ==
    /\ sip_pc = "check"
    /\ sip_pc' = "init"
    /\ UNCHANGED <<boot_vars, h_init_ip, wifi_event_group, client, io_stopped, ev_vars, out_vars,
                   n_init, n_fail, n_delay, n_install, h_live,
                   h_disc_in_delay, h_drop, h_disc_snap>>

\* if (!client.is_initialized())
sip_task_IsInitialized ==
    /\ sip_pc = "check"
    /\ sip_pc' = IF ~SipClient_is_initialized(client) THEN "init" ELSE "run"
    /\ UNCHANGED <<boot_vars, h_init_ip, wifi_event_group, client, io_stopped, ev_vars, out_vars,
                   n_init, n_fail, n_delay, n_install, h_live,
                   h_disc_in_delay, h_drop, h_disc_snap>>

\* client.init() is called
sip_task_InitCall ==
    /\ sip_pc = "init"
    /\ n_init < MaxInit
    /\ sip_pc' = "in_init"
    /\ n_init' = n_init + 1
    /\ UNCHANGED <<boot_vars, h_init_ip, wifi_event_group, client, io_stopped, ev_vars, out_vars,
                   n_fail, n_delay, n_install, h_live,
                   h_disc_in_delay, h_drop, h_disc_snap>>

\* sip_task_InitReturn with the set_event_handler call forgotten: success
\* goes straight to io_context.run()
sip_task_InitReturn_NoInstall(result) ==
    /\ sip_pc = "in_init"
    /\ client' = SipClient_init(client, result)
    /\ sip_pc' = IF ~result THEN "delay" ELSE "run"
    /\ n_fail' = IF ~result THEN n_fail + 1 ELSE n_fail
    /\ h_live' = (h_live \/ result)
    /\ h_init_ip' = IF result THEN client.my_ip ELSE h_init_ip
    /\ h_drop' = {}
    /\ h_disc_snap' = NoSnap
    /\ UNCHANGED <<boot_vars, wifi_event_group, io_stopped, ev_vars, out_vars,
                   n_init, n_delay, n_install, h_disc_in_delay>>

\* bool result = client.init(); if (!result) ... else ...
sip_task_InitReturn(result) ==
    /\ sip_pc = "in_init"
    /\ client' = SipClient_init(client, result)
    /\ sip_pc' = IF ~result THEN "delay" ELSE "set_handler"
    /\ n_fail' = IF ~result THEN n_fail + 1 ELSE n_fail
    /\ h_live' = (h_live \/ result)
    /\ h_init_ip' = IF result THEN client.my_ip ELSE h_init_ip
    /\ h_drop' = {}
    /\ h_disc_snap' = NoSnap
    /\ UNCHANGED <<boot_vars, wifi_event_group, io_stopped, ev_vars, out_vars,
                   n_init, n_delay, n_install, h_disc_in_delay>>

\* sip_task_Delay with the vTaskDelay missing: the retry is immediate
sip_task_Delay_NoDelay ==
    /\ sip_pc = "delay"
    /\ sip_pc' = "wait"
    /\ UNCHANGED <<boot_vars, h_init_ip, wifi_event_group, client, io_stopped, ev_vars, out_vars,
                   n_init, n_fail, n_delay, n_install, h_live,
                   h_disc_in_delay, h_drop, h_disc_snap>>

\* sip_task_Delay with the continue missing: falls through to
\* set_event_handler
sip_task_Delay_NoContinue ==
    /\ sip_pc = "delay"
    /\ sip_pc' = "set_handler"
    /\ n_delay' = n_delay + 1
    /\ UNCHANGED <<boot_vars, h_init_ip, wifi_event_group, client, io_stopped, ev_vars, out_vars,
                   n_init, n_fail, n_install, h_live,
                   h_disc_in_delay, h_drop, h_disc_snap>>

\* vTaskDelay(2000 / portTICK_RATE_MS); continue;
sip_task_Delay ==
    /\ sip_pc = "delay"
    /\ sip_pc' = "wait"
    /\ n_delay' = n_delay + 1
    /\ UNCHANGED <<boot_vars, h_init_ip, wifi_event_group, client, io_stopped, ev_vars, out_vars,
                   n_init, n_fail, n_install, h_live,
                   h_disc_in_delay, h_drop, h_disc_snap>>

\* client.set_event_handler([...](const SipClientEvent& event) {...});
sip_task_SetEventHandler ==
    /\ sip_pc = "set_handler"
    /\ client' = SipClient_set_event_handler(client, "EventRouter")
    /\ sip_pc' = "run"
    /\ n_install' = n_install + 1
    /\ UNCHANGED <<boot_vars, h_init_ip, wifi_event_group, io_stopped, ev_vars, out_vars,
                   n_init, n_fail, n_delay, h_live,
                   h_disc_in_delay, h_drop, h_disc_snap>>

\* handlers->io_context.run() is entered: a stopped io_context returns at
\* once, without running any handler
sip_task_RunEnter ==
    /\ sip_pc = "run"
    /\ sip_pc' = IF io_stopped THEN "wait" ELSE "running"
    /\ UNCHANGED <<boot_vars, h_init_ip, wifi_event_group, client, io_stopped, ev_vars, out_vars,
                   n_init, n_fail, n_delay, n_install, h_live,
                   h_disc_in_delay, h_drop, h_disc_snap>>

\* the calls a delivered event makes: the session invokes the installed
\* handler, if there is one
SipClient_raise(c, event) ==
    IF c.event_handler = "EventRouter"
    THEN EventRouter(event)
    ELSE [call_end |-> 0, trigger |-> 0]

\* inside io_context.run(): the session raises an event, which the
\* installed handler routes synchronously
sip_task_RunEvent(event) ==
    /\ sip_pc = "running"
    /\ SipClient_is_initialized(client)
    /\ Len(events) < MaxEvents
    /\ button_input_handler' =
          [button_input_handler EXCEPT
              !.call_end_calls = @ + SipClient_raise(client, event).call_end]
    /\ actuator_handler' =
          [actuator_handler EXCEPT
              !.trigger_calls = @ + SipClient_raise(client, event).trigger]
    /\ events' = Append(events, event)
    /\ UNCHANGED <<boot_vars, h_init_ip, wifi_event_group, client, io_stopped, sip_pc, ev_vars,
                   n_init, n_fail, n_delay, n_install, h_live,
                   h_disc_in_delay, h_drop, h_disc_snap>>

\* io_context.run() returns (out of work: link dropped, work drained or an
\* I/O failure) and leaves the io_context stopped; the for (;;) loops
sip_task_RunReturn ==
    /\ sip_pc = "running"
    /\ io_stopped' = TRUE
    /\ sip_pc' = "wait"
    /\ h_drop' = IF "active" \in h_drop THEN h_drop \cup {"returned"} ELSE h_drop
    /\ UNCHANGED <<boot_vars, h_init_ip, wifi_event_group, client, ev_vars, out_vars,
                   n_init, n_fail, n_delay, n_install, h_live,
                   h_disc_in_delay, h_disc_snap>>

sip_task ==
    \/ sip_task_WaitBits
    \/ sip_task_IsInitialized
    \/ sip_task_InitCall
    \/ \E result \in BOOLEAN : sip_task_InitReturn(result)
    \/ sip_task_Delay
    \/ sip_task_SetEventHandler
    \/ sip_task_RunEnter
    \/ \E event \in SipClientEvents : sip_task_RunEvent(event)
    \/ sip_task_RunReturn

(* ---------------------------- event_handler --------------------------- *)

sip_hist == <<n_init, n_fail, n_delay, n_install>>

\* WIFI_EVENT_STA_START: esp_wifi_connect();
event_handler_StaStart ==
    /\ ev_pc = "idle"
    /\ h_did' = {"esp_wifi_connect"}
    /\ UNCHANGED <<boot_vars, h_init_ip, ev_arg, wifi_event_group, client, io_stopped, sip_pc, ev_pc,
                   ev_data, out_vars, sip_hist, h_live, h_disc_in_delay,
                   h_drop, h_disc_snap, h_ip_recorded>>

\* WIFI_EVENT_STA_DISCONNECTED is dispatched to event_handler
event_handler_Disconnected ==
    /\ ev_pc = "idle"
    /\ ev_pc' = "deinit"
    /\ ev_arg' = handler_arg
    /\ h_did' = {}
    /\ h_disc_in_delay' = (h_disc_in_delay \/ sip_pc = "delay")
    /\ h_drop' = IF /\ SipClient_is_initialized(client)
                    /\ sip_pc = "running"
                    /\ h_drop = {}
                 THEN {"active"}
                 ELSE h_drop
    /\ h_disc_snap' = IF h_disc_snap.tag = "none"
                      THEN [h_disc_snap EXCEPT !.tag = "pending"]
                      ELSE h_disc_snap
    /\ UNCHANGED <<boot_vars, h_init_ip, wifi_event_group, client, io_stopped, sip_pc, ev_data,
                   out_vars, sip_hist, h_live, h_ip_recorded>>

\* event_handler_Deinit that also ends the ring: button call_end() on
\* every disconnect
event_handler_Deinit_CallEnd ==
    /\ ev_pc = "deinit"
    /\ ev_arg = "client"
    /\ client' = SipClient_deinit(client)
    /\ button_input_handler' =
          [button_input_handler EXCEPT !.call_end_calls = @ + 1]
    /\ ev_pc' = "connect"
    /\ h_did' = h_did \cup {"deinit"}
    /\ h_live' = FALSE
    /\ h_init_ip' = << >>
    /\ h_drop' = IF "active" \in h_drop THEN h_drop \cup {"deinit"} ELSE h_drop
    /\ UNCHANGED <<boot_vars, ev_arg, wifi_event_group, io_stopped, sip_pc, ev_data,
                   actuator_handler, events, sip_hist, h_disc_in_delay,
                   h_disc_snap, h_ip_recorded>>

\* client->deinit();
event_handler_Deinit ==
    /\ ev_pc = "deinit"
    /\ ev_arg = "client"
    /\ client' = SipClient_deinit(client)
    /\ ev_pc' = "connect"
    /\ h_did' = h_did \cup {"deinit"}
    /\ h_live' = FALSE
    /\ h_init_ip' = << >>
    /\ h_drop' = IF "active" \in h_drop THEN h_drop \cup {"deinit"} ELSE h_drop
    /\ UNCHANGED <<boot_vars, ev_arg, wifi_event_group, io_stopped, sip_pc, ev_data, out_vars,
                   sip_hist, h_disc_in_delay, h_disc_snap, h_ip_recorded>>

\* esp_wifi_connect(); (the workaround: no auto-reassociation)
event_handler_Reconnect ==
    /\ ev_pc = "connect"
    /\ ev_pc' = "clear"
    /\ h_did' = h_did \cup {"esp_wifi_connect"}
    /\ UNCHANGED <<boot_vars, h_init_ip, ev_arg, wifi_event_group, client, io_stopped, sip_pc, ev_data,
                   out_vars, sip_hist, h_live, h_disc_in_delay, h_drop,
                   h_disc_snap, h_ip_recorded>>

\* event_handler_ClearBits calling xEventGroupSetBits instead
event_handler_ClearBits_Sets ==
    /\ ev_pc = "clear"
    /\ wifi_event_group' = xEventGroupSetBits(wifi_event_group, {CONNECTED_BIT})
    /\ ev_pc' = "idle"
    /\ h_did' = h_did \cup {"clear_bits"}
    /\ UNCHANGED <<boot_vars, h_init_ip, ev_arg, client, io_stopped, sip_pc, ev_data, out_vars, sip_hist,
                   h_live, h_disc_in_delay, h_drop, h_ip_recorded>>
    /\ h_disc_snap' =
          IF h_disc_snap.tag = "pending"
          THEN [tag |-> "taken", state |-> DiscState']
          ELSE IF h_disc_snap.tag = "taken"
               THEN [h_disc_snap EXCEPT !.tag = "repeated"]
               ELSE h_disc_snap

\* xEventGroupClearBits(wifi_event_group, CONNECTED_BIT); the handler returns
event_handler_ClearBits ==
    /\ ev_pc = "clear"
    /\ wifi_event_group' = xEventGroupClearBits(wifi_event_group, {CONNECTED_BIT})
    /\ ev_pc' = "idle"
    /\ h_did' = h_did \cup {"clear_bits"}
    /\ UNCHANGED <<boot_vars, h_init_ip, ev_arg, client, io_stopped, sip_pc, ev_data, out_vars, sip_hist,
                   h_live, h_disc_in_delay, h_drop, h_ip_recorded>>
    /\ h_disc_snap' =
          IF h_disc_snap.tag = "pending"
          THEN [tag |-> "taken", state |-> DiscState']
          ELSE IF h_disc_snap.tag = "taken"
               THEN [h_disc_snap EXCEPT !.tag = "repeated"]
               ELSE h_disc_snap

\* IP_EVENT_STA_GOT_IP is dispatched to event_handler:
\* got_ip = &event->ip_info.ip
event_handler_GotIp(ip_info) ==
    /\ ev_pc = "idle"
    /\ ev_data' = ip_info
    /\ ev_pc' = "set_ip"
    /\ ev_arg' = handler_arg
    /\ h_did' = {}
    /\ h_disc_snap' = NoSnap
    /\ UNCHANGED <<boot_vars, h_init_ip, wifi_event_group, client, io_stopped, sip_pc, out_vars,
                   sip_hist, h_live, h_disc_in_delay, h_drop, h_ip_recorded>>

\* #ifdef CONFIG_SIP_SERVER_IS_DHCP_SERVER
\*   client->set_server_ip(get_gw_ip_address(got_ip));
\* #endif
\* client->set_my_ip(get_local_ip_address(got_ip));
event_handler_SetIp ==
    /\ ev_pc = "set_ip"
    /\ ev_arg = "client"
    /\ client' =
          SipClient_set_my_ip(
              IF CONFIG_SIP_SERVER_IS_DHCP_SERVER
              THEN SipClient_set_server_ip(client, get_gw_ip_address(ev_data))
              ELSE client,
              get_local_ip_address(ev_data.ip))
    /\ ev_pc' = "set_bits"
    /\ h_did' = h_did \cup {"set_my_ip"}
                      \cup (IF CONFIG_SIP_SERVER_IS_DHCP_SERVER
                            THEN {"set_server_ip"} ELSE {})
    /\ h_ip_recorded' = TRUE
    /\ UNCHANGED <<boot_vars, h_init_ip, ev_arg, wifi_event_group, io_stopped, sip_pc, ev_data, out_vars,
                   sip_hist, h_live, h_disc_in_delay, h_drop, h_disc_snap>>

\* xEventGroupSetBits(wifi_event_group, CONNECTED_BIT); the handler returns
event_handler_SetBits ==
    /\ ev_pc = "set_bits"
    /\ wifi_event_group' = xEventGroupSetBits(wifi_event_group, {CONNECTED_BIT})
    /\ ev_pc' = "idle"
    /\ ev_data' = NoIpInfo
    /\ h_did' = h_did \cup {"set_bits"}
    /\ h_disc_in_delay' = FALSE
    /\ UNCHANGED <<boot_vars, h_init_ip, ev_arg, client, io_stopped, sip_pc, out_vars, sip_hist, h_live,
                   h_drop, h_disc_snap, h_ip_recorded>>

event_handler ==
    \/ event_handler_StaStart
    \/ event_handler_Disconnected
    \/ event_handler_Deinit
    \/ event_handler_Reconnect
    \/ event_handler_ClearBits
    \/ \E ip_info \in IpInfos : event_handler_GotIp(ip_info)
    \/ event_handler_SetIp
    \/ event_handler_SetBits

(* --------------------------- specification ---------------------------- *)

Next == sip_task \/ event_handler

Spec == Init /\ [][Next]_vars

(* ------------- the lifecycle loop without history counters ------------ *)

\* The steps of sip_task that count (n_init, n_fail, n_delay, n_install),
\* with the counters left alone and no cap on the number of attempts, so
\* that the loop can be followed for ever in a finite state space.  Session
\* events change nothing the loop reads and are left out.

counters == <<events, n_init, n_fail, n_delay, n_install>>

\* client.init() is called
sip_task_InitCall_Live ==
    /\ sip_pc = "init"
    /\ sip_pc' = "in_init"
    /\ UNCHANGED <<boot_vars, h_init_ip, wifi_event_group, client, io_stopped,
                   ev_vars, button_input_handler, actuator_handler, counters,
                   h_live, h_disc_in_delay, h_drop, h_disc_snap>>

\* bool result = client.init(); if (!result) ... else ...
sip_task_InitReturn_Live(result) ==
    /\ sip_pc = "in_init"
    /\ client' = SipClient_init(client, result)
    /\ sip_pc' = IF ~result THEN "delay" ELSE "set_handler"
    /\ h_live' = (h_live \/ result)
    /\ h_init_ip' = IF result THEN client.my_ip ELSE h_init_ip
    /\ h_drop' = {}
    /\ h_disc_snap' = NoSnap
    /\ UNCHANGED <<boot_vars, wifi_event_group, io_stopped, ev_vars,
                   button_input_handler, actuator_handler, counters,
                   h_disc_in_delay>>

\* sip_task_Delay_Live with the failure being fatal: the task stops
sip_task_Delay_Live_Fatal ==
    /\ sip_pc = "delay"
    /\ sip_pc' = "exit"
    /\ UNCHANGED <<boot_vars, h_init_ip, wifi_event_group, client, io_stopped,
                   ev_vars, button_input_handler, actuator_handler, counters,
                   h_live, h_disc_in_delay, h_drop, h_disc_snap>>

\* vTaskDelay(2000 / portTICK_RATE_MS); continue;
sip_task_Delay_Live ==
    /\ sip_pc = "delay"
    /\ sip_pc' = "wait"
    /\ UNCHANGED <<boot_vars, h_init_ip, wifi_event_group, client, io_stopped,
                   ev_vars, button_input_handler, actuator_handler, counters,
                   h_live, h_disc_in_delay, h_drop, h_disc_snap>>

\* client.set_event_handler([...](const SipClientEvent& event) {...});
sip_task_SetEventHandler_Live ==
    /\ sip_pc = "set_handler"
    /\ client' = SipClient_set_event_handler(client, "EventRouter")
    /\ sip_pc' = "run"
    /\ UNCHANGED <<boot_vars, h_init_ip, wifi_event_group, io_stopped,
                   ev_vars, button_input_handler, actuator_handler, counters,
                   h_live, h_disc_in_delay, h_drop, h_disc_snap>>

sip_task_Live ==
    \/ sip_task_WaitBits
    \/ sip_task_IsInitialized
    \/ sip_task_InitCall_Live
    \/ \E result \in BOOLEAN : sip_task_InitReturn_Live(result)
    \/ sip_task_Delay_Live
    \/ sip_task_SetEventHandler_Live
    \/ sip_task_RunEnter
    \/ sip_task_RunReturn

NextLive == sip_task_Live \/ event_handler

\* sip_task is a task of its own and takes its next step unless it is
\* blocked: in xEventGroupWaitBits while CONNECTED_BIT is clear, or inside
\* io_context.run() while the session has work (run() returns once the
\* session is torn down).  A dispatched handler runs to its end.  init()
\* does not fail for ever.  Nothing makes the link send notifications.
FairLive ==
    /\ WF_vars(sip_task_WaitBits)
    /\ WF_vars(sip_task_IsInitialized)
    /\ WF_vars(sip_task_InitCall_Live)
    /\ WF_vars(\E result \in BOOLEAN : sip_task_InitReturn_Live(result))
    /\ SF_vars(sip_task_InitReturn_Live(TRUE))
    /\ WF_vars(sip_task_Delay_Live)
    /\ WF_vars(sip_task_SetEventHandler_Live)
    /\ WF_vars(sip_task_RunEnter)
    /\ WF_vars(sip_task_RunReturn /\ ~client.initialized)
    /\ WF_vars(event_handler_Deinit \/ event_handler_Reconnect
               \/ event_handler_ClearBits \/ event_handler_SetIp
               \/ event_handler_SetBits)

SpecLive == Init /\ [][NextLive]_vars /\ FairLive

(* ------------------------------ start-up ------------------------------ *)

\* what app_main's start-up steps leave alone
run_vars == <<wifi_event_group, client, io_stopped, ev_vars, out_vars,
              sip_hist, h_live, h_disc_in_delay, h_drop, h_disc_snap,
              h_init_ip>>

\* app_main calls initialize_wifi(): nothing is registered, the station is
\* off, sip_task does not exist.  (client stands for the storage the
\* SipClientT is constructed in; nothing reads it before the constructor.)
InitBoot ==
    /\ wifi_event_group = {}
    /\ client = SipClient_construct
    /\ io_stopped = FALSE
    /\ button_input_handler = [call_end_calls |-> 0]
    /\ actuator_handler = [trigger_calls |-> 0]
    /\ sip_pc = "none"
    /\ ev_pc = "idle"
    /\ ev_data = NoIpInfo
    /\ ev_arg = "NULL"
    /\ handler_arg = "none"
    /\ main_pc = "register_null"
    /\ link_pc = "off"
    /\ events = << >>
    /\ n_init = 0
    /\ n_fail = 0
    /\ n_delay = 0
    /\ n_install = 0
    /\ h_live = FALSE
    /\ h_disc_in_delay = FALSE
    /\ h_drop = {}
    /\ h_did = {}
    /\ h_disc_snap = NoSnap
    /\ h_ip_recorded = FALSE
    /\ h_init_ip = << >>
    /\ h_null_call = FALSE

\* initialize_wifi: esp_event_handler_register(..., &event_handler, NULL) x2
initialize_wifi_Register ==
    /\ main_pc = "register_null"
    /\ handler_arg' = "NULL"
    /\ main_pc' = "wifi_start"
    /\ UNCHANGED <<run_vars, sip_pc, link_pc, h_null_call>>

\* initialize_wifi: esp_wifi_start(), which posts WIFI_EVENT_STA_START
initialize_wifi_Start ==
    /\ main_pc = "wifi_start"
    /\ link_pc' = "started"
    /\ main_pc' = "construct"
    /\ UNCHANGED <<run_vars, sip_pc, handler_arg, h_null_call>>

\* asio::io_context io_context { 1 }; SipClientT client { ... };
\* button_input_handler(client); actuator_handler; handlers { ... };
app_main_Construct ==
    /\ main_pc = "construct"
    /\ client' = SipClient_construct
    /\ main_pc' = "register_client"
    /\ UNCHANGED <<wifi_event_group, io_stopped, ev_vars, out_vars, sip_hist,
                   h_live, h_disc_in_delay, h_drop, h_disc_snap, h_init_ip,
                   sip_pc, handler_arg, link_pc, h_null_call>>

\* esp_event_handler_register(..., &event_handler, &client) x2: replaces
\* the argument of the registration made by initialize_wifi
app_main_Register ==
    /\ main_pc = "register_client"
    /\ handler_arg' = "client"
    /\ main_pc' = "create_task"
    /\ UNCHANGED <<run_vars, sip_pc, link_pc, h_null_call>>

\* xTaskCreatePinnedToCore(&sip_task, ...); then button_input_handler.run()
app_main_CreateTask ==
    /\ main_pc = "create_task"
    /\ sip_pc' = "wait"
    /\ main_pc' = "button_run"
    /\ UNCHANGED <<run_vars, handler_arg, link_pc, h_null_call>>

app_main ==
    \/ initialize_wifi_Register
    \/ initialize_wifi_Start
    \/ app_main_Construct
    \/ app_main_Register
    \/ app_main_CreateTask

\* WIFI_EVENT_STA_START is dispatched: esp_wifi_connect(); the client
\* pointer is cast, not used
event_handler_StaStart_Boot ==
    /\ ev_pc = "idle"
    /\ link_pc = "started"
    /\ link_pc' = "connecting"
    /\ h_did' = {"esp_wifi_connect"}
    /\ UNCHANGED <<main_pc, handler_arg, h_null_call, h_init_ip, ev_arg,
                   wifi_event_group, client, io_stopped, sip_pc, ev_pc,
                   ev_data, out_vars, sip_hist, h_live, h_disc_in_delay,
                   h_drop, h_disc_snap, h_ip_recorded>>

\* the panic handler restarts the chip: app_main starts again
Reboot ==
    /\ wifi_event_group' = {}
    /\ client' = SipClient_construct
    /\ io_stopped' = FALSE
    /\ button_input_handler' = [call_end_calls |-> 0]
    /\ actuator_handler' = [trigger_calls |-> 0]
    /\ sip_pc' = "none"
    /\ ev_pc' = "idle"
    /\ ev_data' = NoIpInfo
    /\ ev_arg' = "NULL"
    /\ handler_arg' = "none"
    /\ main_pc' = "register_null"
    /\ link_pc' = "off"
    /\ h_live' = FALSE
    /\ h_disc_in_delay' = FALSE
    /\ h_drop' = {}
    /\ h_did' = {}
    /\ h_disc_snap' = NoSnap
    /\ h_ip_recorded' = FALSE
    /\ h_init_ip' = << >>
    /\ UNCHANGED counters

\* client->deinit() with client == NULL: undefined behaviour, which either
\* traps (panic and restart) or returns
event_handler_Deinit_Null ==
    /\ ev_pc = "deinit"
    /\ ev_arg = "NULL"
    /\ h_null_call' = TRUE
    /\ \/ Reboot
       \/ /\ ev_pc' = "connect"
          /\ h_did' = h_did \cup {"deinit"}
          /\ UNCHANGED <<main_pc, handler_arg, link_pc, h_init_ip, ev_arg,
                         wifi_event_group, client, io_stopped, sip_pc,
                         ev_data, out_vars, sip_hist, h_live,
                         h_disc_in_delay, h_drop, h_disc_snap, h_ip_recorded>>

\* client->set_my_ip(...) with client == NULL: undefined behaviour, which
\* either traps (panic and restart) or returns
event_handler_SetIp_Null ==
    /\ ev_pc = "set_ip"
    /\ ev_arg = "NULL"
    /\ h_null_call' = TRUE
    /\ \/ Reboot
       \/ /\ ev_pc' = "set_bits"
          /\ h_did' = h_did \cup {"set_my_ip"}
          /\ UNCHANGED <<main_pc, handler_arg, link_pc, h_init_ip, ev_arg,
                         wifi_event_group, client, io_stopped, sip_pc,
                         ev_data, out_vars, sip_hist, h_live,
                         h_disc_in_delay, h_drop, h_disc_snap, h_ip_recorded>>

\* the handler during start-up: link notifications follow esp_wifi_connect
event_handler_Boot ==
    \/ event_handler_StaStart_Boot
    \/ link_pc = "connecting" /\ event_handler_Disconnected
    \/ event_handler_Deinit
    \/ event_handler_Deinit_Null
    \/ event_handler_Reconnect
    \/ event_handler_ClearBits
    \/ link_pc = "connecting"
          /\ \E ip_info \in IpInfos : event_handler_GotIp(ip_info)
    \/ event_handler_SetIp
    \/ event_handler_SetIp_Null
    \/ event_handler_SetBits

NextBoot == app_main \/ sip_task_Live \/ event_handler_Boot

SpecBoot == InitBoot /\ [][NextBoot]_vars

(* ----------------------------- properties ---------------------------- *)

Connected == xEventGroupBitsSet(wifi_event_group, {CONNECTED_BIT})

\* init() calls that have returned true
n_ok == n_init - n_fail - (IF sip_pc = "in_init" THEN 1 ELSE 0)

\* C1: init() is only ever called on an UNINITIALIZED handle: while sip_task
\* is about to call or inside client.init(), the handle is not initialized,
\* and every successful init() before it has been followed by a deinit().
C1_NoDoubleInit ==
    sip_pc \in {"init", "in_init"} => (~client.initialized /\ ~h_live)

\* an init() attempt made after an earlier init() had succeeded
C1_Witness == sip_pc = "in_init" /\ n_ok >= 1

\* C2: after a disconnected notification that arrived during the 2000 ms
\* retry delay, sip_task makes no init() attempt until a got-ip handler has
\* set CONNECTED_BIT again.
C2_NoInitAfterDisconnectInDelay ==
    ~(sip_pc = "in_init" /\ h_disc_in_delay)

\* C3: every failed init() is followed by exactly one 2000 ms delay before
\* anything else happens in the loop, and as long as no init() has succeeded
\* the attempts made are exactly the failures (plus the one in progress).
C3_OneDelayPerFailure ==
    /\ n_delay = n_fail - (IF sip_pc = "delay" THEN 1 ELSE 0)
    /\ (n_ok = 0 /\ sip_pc # "set_handler") =>
           n_init = n_fail + (IF sip_pc = "in_init" THEN 1 ELSE 0)
    /\ sip_pc = "in_init" => n_delay = n_fail

\* the attempt that follows MaxInit - 1 consecutive failures with the link up
C3_Witness ==
    /\ sip_pc = "in_init"
    /\ n_fail = MaxInit - 1
    /\ n_init = MaxInit
    /\ n_delay = MaxInit - 1
    /\ Connected

\* C4: set_event_handler() is called exactly once per init() that returned
\* true and never for one that returned false, after that init() and before
\* io_context.run() is entered; by then every failure has had its delay,
\* and a READY handle that sip_task runs has the router installed.
C4_OneInstallPerSuccess ==
    /\ n_install = n_ok - (IF sip_pc = "set_handler" THEN 1 ELSE 0)
    /\ sip_pc \in {"set_handler", "run", "running"} => n_delay = n_fail
    /\ (sip_pc \in {"run", "running"} /\ client.initialized) =>
           client.event_handler = "EventRouter"

\* init() failed twice, then succeeded: one installation, executor entered
C4_Witness ==
    /\ n_fail = 2
    /\ n_init = 3
    /\ n_delay = 2
    /\ n_install = 1
    /\ sip_pc = "running"
    /\ client.initialized

\* C5: after a disconnected notification that arrived while the handle was
\* READY and sip_task was inside io_context.run(), the next init() attempt
\* is made only after deinit() has been called and that run() has returned.
C5_TeardownBeforeReinit ==
    (sip_pc = "in_init" /\ "active" \in h_drop) =>
        {"deinit", "returned"} \subseteq h_drop

\* the init() attempt that follows such a disconnect
C5_Witness == sip_pc = "in_init" /\ "active" \in h_drop

\* C6: every CALL_END and every CALL_CANCELLED (any reason) that is
\* delivered makes exactly one call_end() call and no trigger() call; every
\* CALL_START makes neither.
C6_CallEndRouting ==
    [][ events' # events =>
          LET e == events'[Len(events')] IN
            /\ e.event \in {"CALL_END", "CALL_CANCELLED"} =>
                 /\ button_input_handler'.call_end_calls =
                        button_input_handler.call_end_calls + 1
                 /\ actuator_handler' = actuator_handler
            /\ e.event = "CALL_START" =>
                 /\ button_input_handler' = button_input_handler
                 /\ actuator_handler' = actuator_handler ]_vars

\* a CALL_START, then a CALL_CANCELLED have been routed
C6_Witness ==
    /\ Len(events) = 2
    /\ events[1].event = "CALL_START"
    /\ events[2].event = "CALL_CANCELLED"
    /\ button_input_handler.call_end_calls = 1
    /\ actuator_handler.trigger_calls = 0

\* C7: a delivered BUTTON_PRESS makes exactly one trigger() call and no
\* call_end() call if its signal is the configured one (the first character
\* of ACTUATOR_PHONE_BUTTON), and no call at all otherwise, whatever its
\* duration; CALL_START then BUTTON_PRESS('#', 500) gives one trigger() and
\* no call_end().
C7_ButtonRouting ==
    /\ [][ (events' # events /\ events'[Len(events')].event = "BUTTON_PRESS") =>
             LET e == events'[Len(events')] IN
               /\ button_input_handler' = button_input_handler
               /\ actuator_handler'.trigger_calls =
                     actuator_handler.trigger_calls +
                        (IF e.button_signal = ACTUATOR_PHONE_BUTTON[1]
                         THEN 1 ELSE 0) ]_vars
    /\ [](( /\ Len(events) = 2
            /\ events[1].event = "CALL_START"
            /\ events[2] = [event |-> "BUTTON_PRESS", cancel_reason |-> NoReason,
                            button_signal |-> "#", button_duration |-> 500] )
           => ( /\ actuator_handler.trigger_calls = 1
                /\ button_input_handler.call_end_calls = 0 ))

\* the scenario: CALL_START, BUTTON_PRESS('#', 500)
C7_Witness ==
    /\ Len(events) = 2
    /\ events[1].event = "CALL_START"
    /\ events[2].event = "BUTTON_PRESS"
    /\ events[2].button_signal = "#"
    /\ events[2].button_duration = 500
    /\ actuator_handler.trigger_calls = 1

\* C8: every run of the disconnected branch of event_handler calls
\* deinit(), esp_wifi_connect() and xEventGroupClearBits(); when it returns
\* CONNECTED_BIT is clear; and a second disconnect in a row, with no init()
\* return and no got-ip since the first arrived, leaves the session state
\* and the event group as the first left them.
C8_DisconnectTeardown ==
    [][ (ev_pc = "clear" /\ ev_pc' = "idle") =>
          /\ h_did' = {"deinit", "esp_wifi_connect", "clear_bits"}
          /\ ~xEventGroupBitsSet(wifi_event_group', {CONNECTED_BIT})
          /\ h_disc_snap.tag \in {"taken", "repeated"} =>
                DiscState' = h_disc_snap.state ]_vars

\* a second disconnect in a row has been handled; the first one had hit a
\* session that an init() had made READY
C8_Witness ==
    /\ h_disc_snap.tag = "repeated"
    /\ ev_pc = "idle"
    /\ n_ok >= 1

\* C9: CONNECTED_BIT is set only by the got-ip branch of event_handler, and
\* only after it has recorded the event's local address (and the gateway,
\* when CONFIG_SIP_SERVER_IS_DHCP_SERVER) on the client; so sip_task calls
\* init() only after a got-ip handler has recorded an address.
C9_AddressBeforeReadiness ==
    /\ [][ (xEventGroupBitsSet(wifi_event_group', {CONNECTED_BIT})
            /\ ~xEventGroupBitsSet(wifi_event_group, {CONNECTED_BIT})) =>
             /\ ev_pc = "set_bits"
             /\ "set_my_ip" \in h_did
             /\ client.my_ip = ip_to_string(ev_data.ip)
             /\ CONFIG_SIP_SERVER_IS_DHCP_SERVER =>
                   client.server_ip = ip_to_string(ev_data.gw) ]_vars
    /\ [](n_init > 0 =>
             /\ h_ip_recorded
             /\ client.my_ip \in { ip_to_string(i.ip) : i \in IpInfos })

\* an init() attempt, made with a recorded address
C9_Witness ==
    /\ sip_pc = "in_init"
    /\ h_ip_recorded
    /\ client.my_ip = <<192, 168, 1, 7>>

\* C10: call_end() is called only by the routing of a CALL_END or
\* CALL_CANCELLED event and trigger() only by the routing of a BUTTON_PRESS
\* event, both inside io_context.run(); no step of event_handler and no
\* other step of sip_task calls them.
C10_OnlyRoutedCalls ==
    [][ /\ button_input_handler' # button_input_handler =>
             /\ sip_pc = "running"
             /\ events' # events
             /\ events'[Len(events')].event \in {"CALL_END", "CALL_CANCELLED"}
        /\ actuator_handler' # actuator_handler =>
             /\ sip_pc = "running"
             /\ events' # events
             /\ events'[Len(events')].event = "BUTTON_PRESS" ]_vars

\* both calls have been made once, and since then the link dropped and an
\* init() failed
C10_Witness ==
    /\ button_input_handler.call_end_calls = 1
    /\ actuator_handler.trigger_calls = 1
    /\ n_fail >= 1
    /\ io_stopped
    /\ ~client.initialized

\* C11: after a disconnected notification has been handled completely and
\* no got-ip since (CONNECTED_BIT clear, event_handler idle, sip_task not
\* inside init()), the handle is not initialized.
C11_LinkLossUninitialized ==
    (~Connected /\ ev_pc = "idle" /\ sip_pc # "in_init") => ~client.initialized

\* C12: CONNECTED_BIT is set at the instant sip_task calls client.init().
C12_InitOnlyWhileConnected ==
    [][ (sip_pc = "init" /\ sip_pc' = "in_init") => Connected ]_vars

C14_ExecutorOnlyWhileInitialized ==
    sip_pc = "running" => client.initialized

\* C20: every session event is delivered inside io_context.run() on
\* sip_task while the router is installed, and the router in place is the
\* one installed after the init() that opened the current READY period: no
\* successful init() is still waiting for its set_event_handler().
C20_EventsRoutedByInstalledRouter ==
    [][ events' # events =>
          /\ sip_pc = "running"
          /\ client.initialized
          /\ h_live
          /\ client.event_handler = "EventRouter"
          /\ n_ok >= 1
          /\ n_install = n_ok ]_vars

\* an event has been delivered in the READY period opened by an init() that
\* succeeded after a failed attempt
C20_Witness ==
    /\ Len(events) >= 1
    /\ n_fail >= 1
    /\ n_install = 1
    /\ sip_pc = "running"
    /\ client.initialized
    /\ client.event_handler = "EventRouter"

\* C15: whenever the handle is READY and no notification handler is in
\* progress, the local address the last successful init() used is the one
\* the most recent got-ip handler recorded on the client.
C15_InitUsesLatestAddress ==
    (client.initialized /\ ev_pc = "idle") => h_init_ip = client.my_ip

\* the handle is READY with the router installed and sip_task is at, or
\* inside, io_context.run()
InExecutorReady ==
    /\ client.initialized
    /\ client.event_handler = "EventRouter"
    /\ sip_pc \in {"run", "running"}

C17_RecoversFromLinkDrop ==
    (<>[]Connected) =>
        (("active" \in h_drop) ~>
            (sip_pc = "running" /\ client.initialized /\ h_drop = {}))

\* sip_task is at a step that blocks (or inside the init() call)
Blocking ==
    \/ sip_pc = "wait" /\ ~Connected
    \/ sip_pc = "delay"
    \/ sip_pc = "running"
    \/ sip_pc = "in_init"

\* C18: sip_task never busy-spins: it is at a blocking step again and again.
C18_NoBusySpin == []<>Blocking

\* C19: event_handler never calls deinit(), set_my_ip() or set_server_ip()
\* through a null client, in any interleaving of start-up with the link's
\* notifications.
C19_NoNullClientCall == ~h_null_call

====
